---- MODULE Spec2Model ----
(***************************************************************************)
(* Export::Output::TextWriter (export/output/export_output_text.cpp): the  *)
(* text renderer of the export pipeline, with its serialization helpers.   *)
(*                                                                         *)
(* A byte string is a sequence of tokens; a token is one character that    *)
(* the code inspects ("\n", "\r", a digit) or a piece of text it only      *)
(* copies ("Chats", "chats.txt").  A std::unique_ptr<File> is the full     *)
(* path of the file it owns, and the empty sequence when it is null.       *)
(***************************************************************************)
EXTENDS Integers, Sequences, FiniteSets, TLC

(* ------------------------------ bounds -------------------------------- *)

\* Dialog lists of 0..MaxDialogs entries are passed to writeChatsStart.
MaxDialogs == 2

\* One longer list: the shortest whose last one-based index has more digits
\* than (size - 1).
LongDialogs == 10

\* The largest count passed to writeUserpicsStart.
MaxUserpics == 1

\* The largest number of messages passed to one writeChatSlice call.
MaxSliceSize == 2

\* writeChatSlice is called while the open per-dialog file has received
\* fewer messages than this.
MaxChatMessages == 3

\* SerializeKeyValue is called on values of up to this many characters.
MaxValueLen == 4

\* SerializeKeyValue is called on lists of up to this many pairs.
MaxPairs == 3

\* JoinList is called on lists of up to this many fragments.
MaxListLen == 3

\* The member lists and secure-value lists of an action have up to this many
\* entries.
MaxMembers == 3

(* --------------------------- byte strings ----------------------------- *)

nullptr == <<>>

kLineBreak == <<"\n">>

\* QByteArray::indexOf(ch, from): zero-based, -1 when absent.
RECURSIVE IndexOf(_, _, _)
IndexOf(value, ch, from) ==
    IF from >= Len(value) THEN -1
    ELSE IF value[from + 1] = ch THEN from
    ELSE IndexOf(value, ch, from + 1)

\* QByteArray(data + offset, n)
Mid(value, offset, n) == SubSeq(value, offset + 1, offset + n)

DigitChars == <<"0", "1", "2", "3", "4", "5", "6", "7", "8", "9">>

RECURSIVE Decimal(_)
Decimal(n) ==
    IF n < 10 THEN <<DigitChars[n + 1]>>
    ELSE Decimal(n \div 10) \o <<DigitChars[(n % 10) + 1]>>

RECURSIVE Fill(_, _)
Fill(n, filler) == IF n <= 0 THEN <<>> ELSE <<filler>> \o Fill(n - 1, filler)

\* Data::NumberToString(value, length = 0, filler = '0'): the decimal digits,
\* padded on the left with the filler up to the length, never cut.
NumberToString(value, length, filler) ==
    Fill(length - Len(Decimal(value)), filler) \o Decimal(value)

\* SerializeMultilineLoop without its test for a carriage return.
RECURSIVE SerializeMultilineLoopKeepCr(_, _, _, _)
SerializeMultilineLoopKeepCr(appendTo, value, offset, newline) ==
    LET appended == appendTo \o <<"> ">> \o Mid(value, offset, newline - offset)
                        \o kLineBreak
        offset2  == newline + 1
        newline2 == IndexOf(value, "\n", offset2)
    IN  IF newline2 > 0
        THEN SerializeMultilineLoopKeepCr(appended, value, offset2, newline2)
        ELSE IF Len(value) > offset2
        THEN appended \o <<"> ">> \o Mid(value, offset2, Len(value) - offset2)
                 \o kLineBreak
        ELSE appended

\* SerializeMultilineLoop without its test of the text after the last line
\* feed.
RECURSIVE SerializeMultilineLoopEmptyTail(_, _, _, _)
SerializeMultilineLoopEmptyTail(appendTo, value, offset, newline) ==
    LET win      == newline > 0 /\ value[newline] = "\r"
        stop     == IF win THEN newline - 1 ELSE newline
        appended == appendTo \o <<"> ">> \o Mid(value, offset, stop - offset)
                        \o kLineBreak
        offset2  == newline + 1
        newline2 == IndexOf(value, "\n", offset2)
    IN  IF newline2 > 0
        THEN SerializeMultilineLoopEmptyTail(appended, value, offset2, newline2)
        ELSE appended \o <<"> ">> \o Mid(value, offset2, Len(value) - offset2)
                 \o kLineBreak

\* One pass of the do-while loop of SerializeMultiline and the passes after it.
RECURSIVE SerializeMultilineLoop(_, _, _, _)
SerializeMultilineLoop(appendTo, value, offset, newline) ==
    LET win      == newline > 0 /\ value[newline] = "\r"
        stop     == IF win THEN newline - 1 ELSE newline
        appended == appendTo \o <<"> ">> \o Mid(value, offset, stop - offset)
                        \o kLineBreak
        offset2  == newline + 1
        newline2 == IndexOf(value, "\n", offset2)
    IN  IF newline2 > 0
        THEN SerializeMultilineLoop(appended, value, offset2, newline2)
        ELSE IF Len(value) > offset2
        THEN appended \o <<"> ">> \o Mid(value, offset2, Len(value) - offset2)
                 \o kLineBreak
        ELSE appended

SerializeMultiline(appendTo, value, newline) ==
    SerializeMultilineLoop(appendTo, value, 0, newline)

\* JoinListLoop appending the separator after the last fragment as well.
RECURSIVE JoinListLoopTrailing(_, _, _, _)
JoinListLoopTrailing(result, separator, list, counter) ==
    LET appended == result \o list[counter + 1] \o separator
    IN  IF counter + 1 = Len(list) THEN appended
        ELSE JoinListLoopTrailing(appended, separator, list, counter + 1)

RECURSIVE JoinListLoop(_, _, _, _)
JoinListLoop(result, separator, list, counter) ==
    LET appended == result \o list[counter + 1]
    IN  IF counter + 1 = Len(list) THEN appended
        ELSE JoinListLoop(appended \o separator, separator, list, counter + 1)

JoinList(separator, list) ==
    IF Len(list) = 0 THEN <<>>
    ELSE IF Len(list) = 1 THEN list[1]
    ELSE JoinListLoop(<<>>, separator, list, 0)

\* SerializePair without its test for an empty value.
SerializePairKeepEmpty(result, key, value) ==
    LET newline == IndexOf(value, "\n", 0)
    IN  IF newline >= 0
        THEN SerializeMultiline(result \o key \o <<":">> \o kLineBreak,
                                value, newline)
        ELSE result \o key \o <<": ">> \o value \o kLineBreak

\* The text one (key, value) pair adds to the result of SerializeKeyValue.
SerializePair(result, key, value) ==
    IF Len(value) = 0 THEN result
    ELSE LET newline == IndexOf(value, "\n", 0)
         IN  IF newline >= 0
             THEN SerializeMultiline(result \o key \o <<":">> \o kLineBreak,
                                     value, newline)
             ELSE result \o key \o <<": ">> \o value \o kLineBreak

RECURSIVE SerializeKeyValueFrom(_, _, _)
SerializeKeyValueFrom(result, values, i) ==
    IF i > Len(values) THEN result
    ELSE SerializeKeyValueFrom(
             SerializePair(result, values[i][1], values[i][2]), values, i + 1)

\* values: a sequence of <<key, value>> pairs.
SerializeKeyValue(values) == SerializeKeyValueFrom(<<>>, values, 1)

(* ------------------- collaborators of the serializer ------------------ *)

\* Data::UserPeerId / Data::ChatPeerId: the peer id of a user or chat id.
UserPeerId(userId) == 100 + userId
ChatPeerId(chatId) == 200 + chatId

\* Data::FormatDateTime: empty for a zero date.
FormatDateTime(date) == IF date = 0 THEN <<>> ELSE <<"date-">> \o Decimal(date)

\* Data::FormatPhoneNumber: the formatted digits, empty for an empty number.
FormatPhoneNumber(phoneNumber) ==
    IF phoneNumber = <<>> THEN <<>> ELSE <<"+">> \o phoneNumber

\* Data::FormatMoneyAmount
FormatMoneyAmount(amount, currency) == Decimal(amount) \o <<" ">> \o currency

\* A default-constructed Data::User, as a peer.
EmptyUser == [isUser |-> TRUE, name |-> <<>>, username |-> <<>>, isBot |-> FALSE]

\* A default-constructed Data::Chat, as a peer.
EmptyChat == [isUser |-> FALSE, name |-> <<>>, username |-> <<>>, isBot |-> FALSE]

FormatUsername(username) ==
    IF username = <<>> THEN username ELSE <<"@">> \o username

FormatFilePath(file) == file.relativePath

(* -------------------------- SerializeMessage -------------------------- *)

\* The lambda peer of SerializeMessage.
peer(peers, peerId) ==
    IF peerId \in DOMAIN peers THEN peers[peerId] ELSE EmptyUser

\* The lambda user of SerializeMessage.
user(peers, userId) ==
    LET result == peer(peers, UserPeerId(userId))
    IN  IF result.isUser THEN result ELSE EmptyUser

\* The lambda chat of SerializeMessage.
chat(peers, chatId) ==
    LET result == peer(peers, ChatPeerId(chatId))
    IN  IF ~result.isUser THEN result ELSE EmptyChat

\* The lambda push: the pairs it appends to values.
push(key, value) == IF value = <<>> THEN <<>> ELSE <<<<key, value>>>>

wrapPeerName(peers, peerId) ==
    LET result == peer(peers, peerId).name
    IN  IF result = <<>> THEN <<"(unknown peer)">> ELSE result

wrapUserName(peers, userId) ==
    LET result == user(peers, userId).name
    IN  IF result = <<>> THEN <<"(unknown user)">> ELSE result

pushFrom(message, peers, label) ==
    IF message.fromId # 0 THEN push(label, wrapUserName(peers, message.fromId))
    ELSE <<>>

pushReplyToMsgId(message, label) ==
    IF message.replyToMsgId # 0
    THEN push(label, <<"ID-">> \o NumberToString(message.replyToMsgId, 0, "0"))
    ELSE <<>>

\* pushUserNames without its test for a single entry.
pushUserNamesMany(peers, data, labelOne, labelMany) ==
    LET list == [i \in 1..Len(data) |-> wrapUserName(peers, data[i])]
    IN  IF Len(list) # 0 THEN push(labelMany, JoinList(<<", ">>, list))
        ELSE <<>>

pushUserNames(peers, data, labelOne, labelMany) ==
    LET list == [i \in 1..Len(data) |-> wrapUserName(peers, data[i])]
    IN  IF Len(list) = 1 THEN push(labelOne, list[1])
        ELSE IF Len(list) # 0 THEN push(labelMany, JoinList(<<", ">>, list))
        ELSE <<>>

pushActor(message, peers) == pushFrom(message, peers, <<"Actor">>)

pushAction(action) == push(<<"Action">>, action)

pushTTL(message, label) ==
    IF message.media.ttl # 0
    THEN push(label, NumberToString(message.media.ttl, 0, "0") \o <<" sec.">>)
    ELSE <<>>

\* The lambda pushPath; its Expects is PathExpects.
PathExpects(file) == file.relativePath # <<>> \/ file.skipReason # "None"

pushPath(file, label, name) ==
    LET pre == IF name = <<>> THEN <<>> ELSE name \o <<" ">>
    IN  push(label,
             CASE file.skipReason = "Unavailable" -> pre \o <<"(file unavailable)">>
               [] file.skipReason = "FileSize" -> pre \o <<"(file too large)">>
               [] file.skipReason = "FileType" -> pre \o <<"(file skipped)">>
               [] file.skipReason = "None" -> FormatFilePath(file))

pushPhoto(image) ==
    pushPath(image.file, <<"Photo">>, <<>>)
    \o (IF image.width # 0 /\ image.height # 0
        THEN push(<<"Width">>, NumberToString(image.width, 0, "0"))
             \o push(<<"Height">>, NumberToString(image.height, 0, "0"))
        ELSE <<>>)

\* ActionPhoneCall: the label of the discard reason, empty if unrecognized.
DiscardReasonString(discardReason) ==
    CASE discardReason = "Busy" -> <<"Busy">>
      [] discardReason = "Disconnect" -> <<"Disconnect">>
      [] discardReason = "Hangup" -> <<"Hangup">>
      [] discardReason = "Missed" -> <<"Missed">>
      [] OTHER -> <<>>

\* ActionSecureValuesSent: the label of one value type, empty if unrecognized.
SecureValueTypeString(type) ==
    CASE type = "PersonalDetails" -> <<"Personal details">>
      [] type = "Passport" -> <<"Passport">>
      [] type = "DriverLicense" -> <<"Driver license">>
      [] type = "IdentityCard" -> <<"Identity card">>
      [] type = "InternalPassport" -> <<"Internal passport">>
      [] type = "Address" -> <<"Address information">>
      [] type = "UtilityBill" -> <<"Utility bill">>
      [] type = "BankStatement" -> <<"Bank statement">>
      [] type = "RentalAgreement" -> <<"Rental agreement">>
      [] type = "PassportRegistration" -> <<"Passport registration">>
      [] type = "TemporaryRegistration" -> <<"Temporary registration">>
      [] type = "Phone" -> <<"Phone number">>
      [] type = "Email" -> <<"Email">>
      [] OTHER -> <<>>

pushSecureValues(types) ==
    LET list == [i \in 1..Len(types) |-> SecureValueTypeString(types[i])]
    IN  IF Len(list) = 1 THEN push(<<"Value">>, list[1])
        ELSE IF Len(list) # 0 THEN push(<<"Values">>, JoinList(<<", ">>, list))
        ELSE <<>>

\* message.action.content.match(...): the pairs the action appends to values.
ActionValues(message, peers) ==
    LET data  == message.action
        actor == pushActor(message, peers)
    IN  CASE data.type = "ActionChatCreate" ->
               actor \o pushAction(<<"Create group">>)
               \o push(<<"Title">>, data.title)
               \o pushUserNames(peers, data.userIds, <<"Member">>, <<"Members">>)
          [] data.type = "ActionChatEditTitle" ->
               actor \o pushAction(<<"Edit group title">>)
               \o push(<<"New title">>, data.title)
          [] data.type = "ActionChatEditPhoto" ->
               actor \o pushAction(<<"Edit group photo">>)
               \o pushPhoto(data.photo.image)
          [] data.type = "ActionChatDeletePhoto" ->
               actor \o pushAction(<<"Delete group photo">>)
          [] data.type = "ActionChatAddUser" ->
               actor \o pushAction(<<"Invite members">>)
               \o pushUserNames(peers, data.userIds, <<"Member">>, <<"Members">>)
          [] data.type = "ActionChatDeleteUser" ->
               actor \o pushAction(<<"Remove members">>)
               \o push(<<"Member">>, wrapUserName(peers, data.userId))
          [] data.type = "ActionChatJoinedByLink" ->
               actor \o pushAction(<<"Join group by link">>)
               \o push(<<"Inviter">>, wrapUserName(peers, data.inviterId))
          [] data.type = "ActionChannelCreate" ->
               actor \o pushAction(<<"Create channel">>)
               \o push(<<"Title">>, data.title)
          [] data.type = "ActionChatMigrateTo" ->
               actor \o pushAction(<<"Migrate this group to supergroup">>)
          [] data.type = "ActionChannelMigrateFrom" ->
               actor \o pushAction(<<"Migrate this supergroup from group">>)
               \o push(<<"Title">>, data.title)
          [] data.type = "ActionPinMessage" ->
               actor \o pushAction(<<"Pin message">>)
               \o pushReplyToMsgId(message, <<"Message">>)
          [] data.type = "ActionHistoryClear" ->
               actor \o pushAction(<<"Clear history">>)
          [] data.type = "ActionGameScore" ->
               actor \o pushAction(<<"Score in a game">>)
               \o pushReplyToMsgId(message, <<"Game message">>)
               \o push(<<"Score">>, NumberToString(data.score, 0, "0"))
          [] data.type = "ActionPaymentSent" ->
               pushAction(<<"Send payment">>)
               \o push(<<"Amount">>, FormatMoneyAmount(data.amount, data.currency))
               \o pushReplyToMsgId(message, <<"Invoice message">>)
          [] data.type = "ActionPhoneCall" ->
               actor \o pushAction(<<"Phone call">>)
               \o (IF data.duration # 0
                   THEN push(<<"Duration">>,
                             NumberToString(data.duration, 0, "0") \o <<" sec.">>)
                   ELSE <<>>)
               \o push(<<"Discard reason">>, DiscardReasonString(data.discardReason))
          [] data.type = "ActionScreenshotTaken" ->
               actor \o pushAction(<<"Take screenshot">>)
          [] data.type = "ActionCustomAction" ->
               actor \o push(<<"Information">>, data.message)
          [] data.type = "ActionBotAllowed" ->
               pushAction(<<"Allow sending messages">>)
               \o push(<<"Reason">>, <<"Login on \"">> \o data.domain \o <<"\"">>)
          [] data.type = "ActionSecureValuesSent" ->
               pushAction(<<"Send Telegram Passport values">>)
               \o pushSecureValues(data.types)
          [] data.type = "none" -> <<>>

\* SenderValues without its test for an action.
SenderValuesUnchecked(message, peers) ==
    pushFrom(message, peers, <<"From">>)
    \o push(<<"Author">>, message.signature)
    \o (IF message.forwardedFromId # 0
        THEN push(<<"Forwarded from">>,
                  wrapPeerName(peers, message.forwardedFromId))
        ELSE <<>>)
    \o pushReplyToMsgId(message, <<"Reply to message">>)
    \o (IF message.viaBotId # 0
        THEN push(<<"Via">>, user(peers, message.viaBotId).username)
        ELSE <<>>)

\* if (!message.action.content) { ... }
SenderValues(message, peers) ==
    IF message.action.type = "none"
    THEN pushFrom(message, peers, <<"From">>)
         \o push(<<"Author">>, message.signature)
         \o (IF message.forwardedFromId # 0
             THEN push(<<"Forwarded from">>,
                       wrapPeerName(peers, message.forwardedFromId))
             ELSE <<>>)
         \o pushReplyToMsgId(message, <<"Reply to message">>)
         \o (IF message.viaBotId # 0
             THEN push(<<"Via">>, user(peers, message.viaBotId).username)
             ELSE <<>>)
    ELSE <<>>

\* The Document branch of message.media.content.match(...).
DocumentValues(message, data) ==
    (IF data.isSticker
     THEN pushPath(data.file, <<"Sticker">>, <<>>)
          \o push(<<"Emoji">>, data.stickerEmoji)
     ELSE IF data.isVideoMessage THEN pushPath(data.file, <<"Video message">>, <<>>)
     ELSE IF data.isVoiceMessage THEN pushPath(data.file, <<"Voice message">>, <<>>)
     ELSE IF data.isAnimated THEN pushPath(data.file, <<"Animation">>, <<>>)
     ELSE IF data.isVideoFile THEN pushPath(data.file, <<"Video file">>, <<>>)
     ELSE IF data.isAudioFile
     THEN pushPath(data.file, <<"Audio file">>, <<>>)
          \o push(<<"Performer">>, data.songPerformer)
          \o push(<<"Title">>, data.songTitle)
     ELSE pushPath(data.file, <<"File">>, <<>>))
    \o (IF ~data.isSticker THEN push(<<"Mime type">>, data.mime) ELSE <<>>)
    \o (IF data.duration # 0
        THEN push(<<"Duration">>,
                  NumberToString(data.duration, 0, "0") \o <<" sec.">>)
        ELSE <<>>)
    \o (IF data.width # 0 /\ data.height # 0
        THEN push(<<"Width">>, NumberToString(data.width, 0, "0"))
             \o push(<<"Height">>, NumberToString(data.height, 0, "0"))
        ELSE <<>>)
    \o pushTTL(message, <<"Self destruct period">>)

\* The pairs of a valid GeoPoint.
PointValues(point) ==
    << <<<<"Latitude">>, NumberToString(point.latitude, 0, "0")>>,
       <<<<"Longitude">>, NumberToString(point.longitude, 0, "0")>> >>

\* Unexpected("Unsupported message."): the dispatch reached UnsupportedMedia.
UnexpectedUnsupported == << <<<<"Unexpected">>, <<"Unsupported message.">>>> >>

\* message.media.content.match(...): the pairs the media appends to values.
MediaValues(message, peers, internalLinksDomain) ==
    LET data == message.media
    IN  CASE data.type = "Photo" ->
               pushPhoto(data.image) \o pushTTL(message, <<"Self destruct period">>)
          [] data.type = "Document" -> DocumentValues(message, data)
          [] data.type = "ContactInfo" ->
               push(<<"Contact information">>, SerializeKeyValue(<<
                   <<<<"First name">>, data.firstName>>,
                   <<<<"Last name">>, data.lastName>>,
                   <<<<"Phone number">>, FormatPhoneNumber(data.phoneNumber)>> >>))
          [] data.type = "GeoPoint" ->
               push(<<"Location">>,
                    IF data.valid THEN SerializeKeyValue(PointValues(data))
                    ELSE <<"(empty value)">>)
               \o pushTTL(message, <<"Live location period">>)
          [] data.type = "Venue" ->
               push(<<"Place name">>, data.title)
               \o push(<<"Address">>, data.address)
               \o (IF data.point.valid
                   THEN push(<<"Location">>,
                             SerializeKeyValue(PointValues(data.point)))
                   ELSE <<>>)
          [] data.type = "Game" ->
               push(<<"Game">>, data.title)
               \o push(<<"Description">>, data.description)
               \o (IF data.botId # 0 /\ data.shortName # <<>>
                      /\ user(peers, data.botId).isBot
                      /\ user(peers, data.botId).username # <<>>
                   THEN push(<<"Link">>,
                             internalLinksDomain
                             \o user(peers, data.botId).username
                             \o <<"?game=">> \o data.shortName)
                   ELSE <<>>)
          [] data.type = "Invoice" ->
               push(<<"Invoice">>, SerializeKeyValue(<<
                   <<<<"Title">>, data.title>>,
                   <<<<"Description">>, data.description>>,
                   <<<<"Amount">>, FormatMoneyAmount(data.amount, data.currency)>>,
                   <<<<"Receipt message">>,
                     IF data.receiptMsgId # 0
                     THEN <<"ID-">> \o NumberToString(data.receiptMsgId, 0, "0")
                     ELSE <<>>>> >>))
          [] data.type = "UnsupportedMedia" -> UnexpectedUnsupported
          [] data.type = "none" -> <<>>

\* The notice returned for a message with unsupported media: no line break.
UnsupportedNotice ==
    <<"Error! This message is not supported by this version of Telegram Desktop. Please update the application.">>

\* The pairs SerializeMessage hands to SerializeKeyValue.
MessageValues(message, peers, internalLinksDomain) ==
    << <<<<"ID">>, NumberToString(message.id, 0, "0")>>,
       <<<<"Date">>, FormatDateTime(message.date)>>,
       <<<<"Edited">>, FormatDateTime(message.edited)>> >>
    \o ActionValues(message, peers)
    \o SenderValues(message, peers)
    \o MediaValues(message, peers, internalLinksDomain)
    \o push(<<"Text">>, message.text)

\* SerializeMessage without its test for unsupported media.
SerializeMessageDispatched(message, peers, internalLinksDomain) ==
    SerializeKeyValue(MessageValues(message, peers, internalLinksDomain))

SerializeMessage(message, peers, internalLinksDomain) ==
    IF message.media.type = "UnsupportedMedia" THEN UnsupportedNotice
    ELSE SerializeKeyValue(MessageValues(message, peers, internalLinksDomain))

(* ------------------------------ TextWriter ---------------------------- *)

VARIABLES
    _settings,       \* Settings: path, internalLinksDomain
    _summary,        \* std::unique_ptr<File>
    _userpicsCount,
    _userpics,       \* std::unique_ptr<File>
    _dialogsCount,
    _dialogIndex,
    _dialog,         \* Data::DialogInfo
    _messagesCount,
    _chats,          \* std::unique_ptr<File>
    _chat,           \* std::unique_ptr<File>
    chatFile,        \* the bytes written through the File that _chat owns
    status,          \* "running", "finished", "failed" (a call returned an I/O
                     \* failure and the caller gave the run up) or "violated"
                     \* (an Expects failed and the program stopped)
    call,            \* the last call: its name, argument, Result, the files it
                     \* created, in order, and the writes it issued, in order
    number,          \* the local number of the last writeChatStart
    history,         \* what the caller has done in the current dialog-list
                     \* session and on the current per-dialog file
    helper           \* a serialization helper called on its own: its name,
                     \* its argument and what it returned

vars == <<_settings, _summary, _userpicsCount, _userpics, _dialogsCount,
          _dialogIndex, _dialog, _messagesCount, _chats, _chat, chatFile,
          status, call, number, history, helper>>

writer == <<_settings, _summary, _userpicsCount, _userpics, _dialogsCount,
            _dialogIndex, _dialog, _messagesCount, _chats, _chat, chatFile>>

mainFileRelativePath == <<"overview.txt">>

pathWithRelativePath(path) == _settings.path \o path

\* std::make_unique<File>(pathWithRelativePath(path), _stats)
fileWithRelativePath(path) == pathWithRelativePath(path)

\* file->writeBlock(block), with the outcome ok of the file primitive.
writeBlock(file, block, ok) == [file |-> file, block |-> block, ok |-> ok]

\* The Result of a call that returns what its last write returned.
ResultOf(writes) ==
    IF writes = <<>> \/ writes[Len(writes)].ok THEN "Success" ELSE "Failure"

\* The call returned: the caller goes on after a success and gives the run up
\* after an I/O failure.
Returned(op, arg, opened, writes, result) ==
    /\ call' = [op |-> op, arg |-> arg, result |-> result,
                opened |-> opened, writes |-> writes]
    /\ status' = IF result = "Success" THEN "running" ELSE "failed"
    /\ UNCHANGED helper

\* An Expects of the call failed: the program stops where it is.
Violated(op, arg) ==
    /\ call' = [op |-> op, arg |-> arg, result |-> "Violation",
                opened |-> <<>>, writes |-> <<>>]
    /\ status' = "violated"
    /\ UNCHANGED <<writer, helper>>

\* The writer after construction, before any call.
InitWriter ==
    /\ _settings = [path |-> <<>>, internalLinksDomain |-> <<>>]
    /\ _summary = nullptr
    /\ _userpicsCount = 0
    /\ _userpics = nullptr
    /\ _dialogsCount = 0
    /\ _dialogIndex = 0
    /\ _dialog = [relativePath |-> <<>>, name |-> <<>>, type |-> "Unknown",
                  onlyMyMessages |-> FALSE]
    /\ _messagesCount = 0
    /\ _chats = nullptr
    /\ _chat = nullptr
    /\ chatFile = <<>>
    /\ status = "running"
    /\ call = [op |-> "TextWriter", arg |-> <<>>, result |-> "Success",
               opened |-> <<>>, writes |-> <<>>]
    /\ number = <<>>
    /\ history = [proto |-> "new", open |-> FALSE, declared |-> 0, begun |-> 0,
                  slices |-> 0, sliced |-> 0, written |-> 0]

\* No helper has been called on its own.
NoHelper ==
    [fn |-> "none", arg |-> [values |-> <<>>], done |-> FALSE, ok |-> TRUE,
     result |-> <<>>]

Init ==
    /\ InitWriter
    /\ helper = NoHelper

(* ------------------------- start, personal, userpics ------------------ *)

endsWith(path, ch) == Len(path) > 0 /\ path[Len(path)] = ch

\* The caller's place in the protocol start, then, any number of times,
\* beginChats, (beginChat, sliceChat*, endChat) once per listed dialog,
\* endChats; "off" once it has left it.
ProtoAfter(op, data) ==
    CASE history.proto = "new" /\ op = "start" /\ endsWith(data.path, "/") -> "idle"
      [] history.proto = "idle" /\ op = "writeChatsStart" -> "chats"
      [] history.proto = "chats" /\ op = "writeChatStart"
         /\ history.begun < history.declared -> "chat"
      [] history.proto = "chat" /\ op = "writeChatSlice" /\ data.list # <<>> -> "chat"
      [] history.proto = "chat" /\ op = "writeChatEnd" -> "chats"
      [] history.proto = "chats" /\ op = "writeChatsEnd"
         /\ history.begun = history.declared -> "idle"
      [] OTHER -> "off"

SettingsValues ==
    { [path |-> <<"export", "/">>, internalLinksDomain |-> <<"https://t.me/">>],
      [path |-> <<"export">>, internalLinksDomain |-> <<"https://t.me/">>] }

start(settings) ==
    /\ status = "running"
    /\ IF ~endsWith(settings.path, "/")
       THEN Violated("start", settings)
       ELSE /\ _settings' = settings
            \* fileWithRelativePath reads the _settings just assigned
            /\ _summary' = settings.path \o mainFileRelativePath
            /\ Returned("start", settings, <<_summary'>>, <<>>, "Success")
            /\ UNCHANGED <<_userpicsCount, _userpics, _dialogsCount, _dialogIndex,
                           _dialog, _messagesCount, _chats, _chat, chatFile>>
    /\ history' = [history EXCEPT !.proto = ProtoAfter("start", settings)]
    /\ UNCHANGED number

PersonalInfos ==
    { [user |-> [info |-> [firstName |-> <<"Ann">>, lastName |-> <<>>,
                           phoneNumber |-> <<"1", "2">>],
                 username |-> <<"ann">>],
       bio |-> <<"first", "\n", "second">>] }

writePersonal(data, ok) ==
    /\ status = "running"
    /\ IF _summary = nullptr
       THEN Violated("writePersonal", data)
       ELSE LET info == data.user.info
                serialized == SerializeKeyValue(<<
                    <<<<"First name">>, info.firstName>>,
                    <<<<"Last name">>, info.lastName>>,
                    <<<<"Phone number">>, FormatPhoneNumber(info.phoneNumber)>>,
                    <<<<"Username">>, FormatUsername(data.user.username)>>,
                    <<<<"Bio">>, data.bio>> >>) \o kLineBreak
                writes == <<writeBlock(_summary, serialized, ok)>>
            IN  /\ Returned("writePersonal", data, <<>>, writes, ResultOf(writes))
                /\ UNCHANGED writer
    /\ UNCHANGED <<number, history>>

UserpicsInfos == { [count |-> n] : n \in 0..MaxUserpics }

\* if (!_userpicsCount) return: nothing is opened for an empty collection.
NoUserpics(count) == count = 0

UserpicsHeader(count, filename) ==
    <<"Personal photos ", "(">> \o NumberToString(count, 0, "0")
    \o <<") - ">> \o filename \o kLineBreak \o kLineBreak

writeUserpicsStart(data, ok) ==
    /\ status = "running"
    /\ IF ~(_summary # nullptr /\ _userpics = nullptr)
       THEN Violated("writeUserpicsStart", data)
       ELSE /\ _userpicsCount' = data.count
            /\ IF NoUserpics(data.count)
               THEN /\ UNCHANGED _userpics
                    /\ Returned("writeUserpicsStart", data, <<>>, <<>>, "Success")
               ELSE LET filename == <<"personal_photos.txt">>
                        writes == <<writeBlock(_summary,
                                       UserpicsHeader(data.count, filename), ok)>>
                    IN  /\ _userpics' = fileWithRelativePath(filename)
                        /\ Returned("writeUserpicsStart", data, <<_userpics'>>,
                                    writes, ResultOf(writes))
            /\ UNCHANGED <<_settings, _summary, _dialogsCount, _dialogIndex,
                           _dialog, _messagesCount, _chats, _chat, chatFile>>
    /\ UNCHANGED <<number, history>>

Userpic(date, relativePath) ==
    [date |-> date,
     image |-> [file |-> [relativePath |-> relativePath, skipReason |-> "None"],
                width |-> 0, height |-> 0]]

UserpicsSlices ==
    { [list |-> <<>>],
      [list |-> <<Userpic(0, <<>>)>>],
      [list |-> <<Userpic(1, <<"photos/1.jpg">>), Userpic(2, <<>>)>>] }

UserpicLine(userpic) ==
    IF userpic.date = 0 THEN <<"(deleted photo)">>
    ELSE SerializeKeyValue(<<
             <<<<"Date">>, FormatDateTime(userpic.date)>>,
             <<<<"Photo">>,
               IF userpic.image.file.relativePath = <<>>
               THEN <<"(file unavailable)">>
               ELSE FormatFilePath(userpic.image.file)>> >>)

writeUserpicsSlice(data, ok) ==
    /\ status = "running"
    /\ IF ~(_userpics # nullptr /\ data.list # <<>>)
       THEN Violated("writeUserpicsSlice", data)
       ELSE LET lines == [i \in 1..Len(data.list) |-> UserpicLine(data.list[i])]
                writes == <<writeBlock(_userpics,
                               JoinList(kLineBreak, lines) \o kLineBreak, ok)>>
            IN  /\ Returned("writeUserpicsSlice", data, <<>>, writes,
                            ResultOf(writes))
                /\ UNCHANGED writer
    /\ UNCHANGED <<number, history>>

\* writeUserpicsEnd resetting the summary handle instead of its own.
writeUserpicsEndWrongHandle ==
    /\ status = "running"
    /\ _summary' = nullptr
    /\ Returned("writeUserpicsEnd", <<>>, <<>>, <<>>, "Success")
    /\ UNCHANGED <<_settings, _userpics, _userpicsCount, _dialogsCount,
                   _dialogIndex, _dialog, _messagesCount, _chats, _chat, chatFile>>
    /\ UNCHANGED <<number, history>>

writeUserpicsEnd ==
    /\ status = "running"
    /\ _userpics' = nullptr
    /\ Returned("writeUserpicsEnd", <<>>, <<>>, <<>>, "Success")
    /\ UNCHANGED <<_settings, _summary, _userpicsCount, _dialogsCount,
                   _dialogIndex, _dialog, _messagesCount, _chats, _chat, chatFile>>
    /\ UNCHANGED <<number, history>>

(* --------------------------- contacts, sessions ----------------------- *)

\* The outcomes of the file primitive for the writes of one call, in order:
\* writeContactsList issues up to four.
IoOutcomes(n) == [1..n -> BOOLEAN]

\* What a private writer method did: its Result, the files it created and
\* the writes it issued, after those of the methods called before it.
Done(result, opened, writes) ==
    [result |-> result, opened |-> opened, writes |-> writes]

Contact(firstName, phoneNumber, date) ==
    [firstName |-> firstName, lastName |-> <<>>, phoneNumber |-> phoneNumber,
     date |-> date]

TopPeer(isUser, name, username, rating) ==
    [peer |-> [isUser |-> isUser, name |-> name, username |-> username,
               broadcast |-> FALSE],
     rating |-> rating]

\* Data::ContactsList values; sorted is the order Data::SortedContactsIndices
\* gives for the list.
ContactsLists ==
    { [list |-> l.list, sorted |-> l.sorted, correspondents |-> f.correspondents,
       inlineBots |-> f.inlineBots, phoneCalls |-> <<>>] :
        l \in { [list |-> <<>>, sorted |-> <<>>],
                [list |-> <<Contact(<<"Bob">>, <<"7">>, 3), Contact(<<>>, <<>>, 0)>>,
                 sorted |-> <<2, 1>>] },
        f \in { [correspondents |-> <<>>, inlineBots |-> <<>>],
                [correspondents |-> <<TopPeer(TRUE, <<>>, <<>>, 5)>>,
                 inlineBots |-> <<TopPeer(FALSE, <<"Group">>, <<>>, 2)>>] } }

SortedContactsIndices(data) == data.sorted

ContactBlock(contact) ==
    IF contact.firstName = <<>> /\ contact.lastName = <<>>
       /\ contact.phoneNumber = <<>>
    THEN <<"(deleted user)">> \o kLineBreak
    ELSE SerializeKeyValue(<<
             <<<<"First name">>, contact.firstName>>,
             <<<<"Last name">>, contact.lastName>>,
             <<<<"Phone number">>, FormatPhoneNumber(contact.phoneNumber)>>,
             <<<<"Date">>, FormatDateTime(contact.date)>> >>)

\* "<label> (<count>) - <filename>" and two line breaks.
ListHeader(label, count, filename) ==
    label \o <<"(">> \o NumberToString(count, 0, "0") \o <<") - ">>
    \o filename \o kLineBreak \o kLineBreak

writeSavedContacts(data, io, before) ==
    IF data.list = <<>> THEN Done("Success", before.opened, before.writes)
    ELSE LET file == fileWithRelativePath(<<"contacts.txt">>)
             indices == SortedContactsIndices(data)
             list == [i \in 1..Len(indices) |-> ContactBlock(data.list[indices[i]])]
             full == JoinList(kLineBreak, list)
             opened == Append(before.opened, file)
             first == Append(before.writes,
                             writeBlock(file, full, io[Len(before.writes) + 1]))
             header == ListHeader(<<"Contacts ">>, Len(data.list),
                                  <<"contacts.txt">>)
             second == Append(first, writeBlock(_summary, header, io[Len(first) + 1]))
         IN  IF ResultOf(first) # "Success"
             THEN Done(ResultOf(first), opened, first)
             ELSE Done(ResultOf(second), opened, second)

FrequentUser(top) ==
    IF ~top.peer.isUser THEN <<>>
    ELSE IF top.peer.name = <<>> THEN <<"(deleted user)">>
    ELSE top.peer.name

FrequentChatType(top) ==
    IF ~top.peer.isUser
    THEN IF top.peer.username = <<>>
         THEN (IF top.peer.broadcast THEN <<"Private channel">>
               ELSE <<"Private group">>)
         ELSE (IF top.peer.broadcast THEN <<"Public channel">>
               ELSE <<"Public group">>)
    ELSE <<>>

FrequentChat(top) ==
    IF top.peer.isUser THEN <<>>
    ELSE IF top.peer.name = <<>> THEN <<"(deleted chat)">>
    ELSE top.peer.name

\* The lambda writeList of writeFrequentContacts.
writeList(peers, category) ==
    [i \in 1..Len(peers) |->
        SerializeKeyValue(<<
            <<<<"Category">>, category>>,
            <<<<"User">>, IF peers[i].peer.isUser THEN FrequentUser(peers[i])
                          ELSE <<>>>>,
            <<FrequentChatType(peers[i]), FrequentChat(peers[i])>>,
            <<<<"Rating">>, Decimal(peers[i].rating)>> >>)]

writeFrequentContacts(data, io, before) ==
    LET size == Len(data.correspondents) + Len(data.inlineBots)
                + Len(data.phoneCalls)
    IN  IF size = 0 THEN Done("Success", before.opened, before.writes)
        ELSE LET file == fileWithRelativePath(<<"frequent.txt">>)
                 list == writeList(data.correspondents, <<"Correspondents">>)
                         \o writeList(data.inlineBots, <<"Inline bots">>)
                         \o writeList(data.phoneCalls, <<"Calls">>)
                 full == JoinList(kLineBreak, list)
                 opened == Append(before.opened, file)
                 first == Append(before.writes,
                                 writeBlock(file, full, io[Len(before.writes) + 1]))
                 header == ListHeader(<<"Frequent contacts ">>, size,
                                      <<"frequent.txt">>)
                 second == Append(first,
                                  writeBlock(_summary, header, io[Len(first) + 1]))
             IN  IF ResultOf(first) # "Success"
                 THEN Done(ResultOf(first), opened, first)
                 ELSE Done(ResultOf(second), opened, second)

\* ContactsListDone going on to the frequent contacts whatever the saved
\* contacts returned.
ContactsListDoneUnchecked(data, io) ==
    LET saved == writeSavedContacts(data, io, Done("Success", <<>>, <<>>))
        frequent == writeFrequentContacts(data, io, saved)
    IN  IF saved.result # "Success"
        THEN Done(saved.result, frequent.opened, frequent.writes)
        ELSE frequent

\* writeContactsList after its Expects: saved contacts, then frequent ones.
ContactsListDone(data, io) ==
    LET saved == writeSavedContacts(data, io, Done("Success", <<>>, <<>>))
    IN  IF saved.result # "Success" THEN saved
        ELSE LET frequent == writeFrequentContacts(data, io, saved)
             IN  IF frequent.result # "Success" THEN frequent
                 ELSE Done("Success", frequent.opened, frequent.writes)

writeContactsList(data, io) ==
    /\ status = "running"
    /\ IF _summary = nullptr
       THEN Violated("writeContactsList", data)
       ELSE LET done == ContactsListDone(data, io)
            IN  /\ Returned("writeContactsList", data, done.opened, done.writes,
                            done.result)
                /\ UNCHANGED writer
    /\ UNCHANGED <<number, history>>

Session(applicationName) ==
    [lastActive |-> 4, ip |-> <<"10.0.0.1">>, country |-> <<>>, region |-> <<>>,
     applicationName |-> applicationName, applicationVersion |-> <<"1.3">>,
     deviceModel |-> <<>>, platform |-> <<>>, systemVersion |-> <<>>,
     created |-> 0]

SessionsLists ==
    { [list |-> <<>>], [list |-> <<Session(<<>>), Session(<<"Desktop">>)>>] }

SessionBlock(session) ==
    SerializeKeyValue(<<
        <<<<"Last active">>, FormatDateTime(session.lastActive)>>,
        <<<<"Last IP address">>, session.ip>>,
        <<<<"Last country">>, session.country>>,
        <<<<"Last region">>, session.region>>,
        <<<<"Application name">>,
          IF session.applicationName = <<>> THEN <<"(unknown)">>
          ELSE session.applicationName>>,
        <<<<"Application version">>, session.applicationVersion>>,
        <<<<"Device model">>, session.deviceModel>>,
        <<<<"Platform">>, session.platform>>,
        <<<<"System version">>, session.systemVersion>>,
        <<<<"Created">>, FormatDateTime(session.created)>> >>)

\* writeSessionsList after its Expects.
SessionsListDone(data, io) ==
    IF data.list = <<>> THEN Done("Success", <<>>, <<>>)
    ELSE LET file == fileWithRelativePath(<<"sessions.txt">>)
             list == [i \in 1..Len(data.list) |-> SessionBlock(data.list[i])]
             full == JoinList(kLineBreak, list)
             first == <<writeBlock(file, full, io[1])>>
             header == ListHeader(<<"Sessions ">>, Len(data.list),
                                  <<"sessions.txt">>)
             second == Append(first, writeBlock(_summary, header, io[2]))
         IN  IF ResultOf(first) # "Success"
             THEN Done(ResultOf(first), <<file>>, first)
             ELSE Done(ResultOf(second), <<file>>, second)

writeSessionsList(data, io) ==
    /\ status = "running"
    /\ IF _summary = nullptr
       THEN Violated("writeSessionsList", data)
       ELSE LET done == SessionsListDone(data, io)
            IN  /\ Returned("writeSessionsList", data, done.opened, done.writes,
                            done.result)
                /\ UNCHANGED writer
    /\ UNCHANGED <<number, history>>

(* ------------------------- dialogs, left channels --------------------- *)

DialogInfo(relativePath, name, type, onlyMyMessages) ==
    [relativePath |-> relativePath, name |-> name, type |-> type,
     onlyMyMessages |-> onlyMyMessages]

DialogInfos ==
    { DialogInfo(<<"chats/chat_1/">>, <<"Carol">>, "Personal", FALSE),
      DialogInfo(<<"chats/chat_2/">>, <<>>, "PublicGroup", TRUE) }

\* Data::DialogsInfo values: a list of every size up to max.
DialogsInfos(max) ==
    { [list |-> [i \in 1..n |->
                    DialogInfo(<<"chats/chat_">> \o Decimal(i) \o <<"/">>,
                               <<"Carol">>, "Personal", FALSE)]] :
        n \in 0..max }

NoAction == [type |-> "none"]

NoMedia == [type |-> "none", ttl |-> 0]

Message(id, fromId, text, action, media) ==
    [id |-> id, date |-> 7, edited |-> 0, fromId |-> fromId, signature |-> <<>>,
     forwardedFromId |-> 0, replyToMsgId |-> 0, viaBotId |-> 0, text |-> text,
     action |-> action, media |-> media]

UnsupportedMedia == [type |-> "UnsupportedMedia", ttl |-> 0]

\* The peers of a slice: user 1 is known, every other id is not.
Peers ==
    (UserPeerId(1) :> [isUser |-> TRUE, name |-> <<"Ann">>, username |-> <<"ann">>,
                       isBot |-> FALSE])

\* The messages the slices of a per-dialog file are made of.
SliceMessages ==
    { Message(1, 1, <<"hello", "\n", "world">>, NoAction, NoMedia),
      Message(2, 1, <<"old">>, NoAction, UnsupportedMedia) }

MessagesSlices ==
    { [list |-> l, peers |-> Peers] :
        l \in UNION { [1..k -> SliceMessages] : k \in 0..MaxSliceSize } }

\* NoChats without its test of the list.
NoChatsUnchecked(data) == FALSE

\* if (data.list.empty()) return: nothing is opened for an empty list.
NoChats(data) == data.list = <<>>

writeChatsStart(data, listName, fileName, ok) ==
    /\ status = "running"
    /\ history' = [history EXCEPT !.proto = ProtoAfter("writeChatsStart", data),
                                  !.open = _summary # nullptr /\ _chats = nullptr,
                                  !.declared = Len(data.list),
                                  !.begun = 0]
    /\ IF ~(_summary # nullptr /\ _chats = nullptr)
       THEN Violated("writeChatsStart", data)
       ELSE IF NoChats(data)
       THEN /\ Returned("writeChatsStart", data, <<>>, <<>>, "Success")
            /\ UNCHANGED writer
       ELSE LET header == ListHeader(listName \o <<" ">>, Len(data.list), fileName)
                writes == <<writeBlock(_summary, header, ok)>>
            IN  /\ _chats' = fileWithRelativePath(fileName)
                /\ _dialogIndex' = 0
                /\ _dialogsCount' = Len(data.list)
                /\ Returned("writeChatsStart", data, <<_chats'>>, writes,
                            ResultOf(writes))
                /\ UNCHANGED <<_settings, _summary, _userpicsCount, _userpics,
                               _dialog, _messagesCount, _chat, chatFile>>
    /\ UNCHANGED number

writeChatStart(data) ==
    /\ status = "running"
    /\ IF ~(_chat = nullptr /\ _dialogIndex < _dialogsCount)
       THEN /\ Violated("writeChatStart", data)
            /\ history' = [history EXCEPT
                               !.proto = ProtoAfter("writeChatStart", data)]
            /\ UNCHANGED number
       ELSE LET digits == Len(NumberToString(_dialogsCount - 1, 0, "0"))
            IN  /\ _dialogIndex' = _dialogIndex + 1
                /\ number' = NumberToString(_dialogIndex', digits, "0")
                /\ _chat' = fileWithRelativePath(
                                data.relativePath \o <<"messages.txt">>)
                /\ chatFile' = <<>>
                /\ _messagesCount' = 0
                /\ _dialog' = data
                /\ Returned("writeChatStart", data, <<_chat'>>, <<>>, "Success")
                /\ history' = [history EXCEPT
                                   !.proto = ProtoAfter("writeChatStart", data),
                                   !.begun = IF history.open THEN @ + 1 ELSE @,
                                   !.slices = 0, !.sliced = 0, !.written = 0]
                /\ UNCHANGED <<_settings, _summary, _userpicsCount, _userpics,
                               _dialogsCount, _chats>>

\* SliceBlock without its test of the file.
SliceBlockUnchecked(empty, list) == kLineBreak \o JoinList(kLineBreak, list)

\* The block of a slice: a leading line break unless the file is empty.
SliceBlock(empty, list) ==
    IF empty THEN JoinList(kLineBreak, list)
    ELSE kLineBreak \o JoinList(kLineBreak, list)

writeChatSlice(data, ok) ==
    /\ status = "running"
    /\ _messagesCount + Len(data.list) <= MaxChatMessages
    /\ IF ~(_chat # nullptr /\ data.list # <<>>)
       THEN /\ Violated("writeChatSlice", data)
            /\ history' = [history EXCEPT
                               !.proto = ProtoAfter("writeChatSlice", data)]
       ELSE LET list == [i \in 1..Len(data.list) |->
                            SerializeMessage(data.list[i], data.peers,
                                             _settings.internalLinksDomain)]
                \* _chat->empty(): nothing was written through this File
                full == SliceBlock(chatFile = <<>>, list)
                writes == <<writeBlock(_chat, full, ok)>>
            IN  /\ _messagesCount' = _messagesCount + Len(data.list)
                /\ chatFile' = IF ok THEN chatFile \o full ELSE chatFile
                /\ Returned("writeChatSlice", data, <<>>, writes, ResultOf(writes))
                /\ history' = [history EXCEPT
                                   !.proto = ProtoAfter("writeChatSlice", data),
                                   !.slices = @ + 1,
                                   !.sliced = @ + Len(data.list),
                                   !.written = IF ok THEN @ + Len(data.list)
                                               ELSE @]
                /\ UNCHANGED <<_settings, _summary, _userpicsCount, _userpics,
                               _dialogsCount, _dialogIndex, _dialog, _chats, _chat>>
    /\ UNCHANGED number

TypeString(type) ==
    CASE type = "Unknown" -> <<"(unknown)">>
      [] type = "Personal" -> <<"Personal chat">>
      [] type = "Bot" -> <<"Bot chat">>
      [] type = "PrivateGroup" -> <<"Private group">>
      [] type = "PublicGroup" -> <<"Public group">>
      [] type = "PrivateChannel" -> <<"Private channel">>
      [] type = "PublicChannel" -> <<"Public channel">>

NameString(name, type) ==
    IF name # <<>> THEN name
    ELSE CASE type = "Unknown" -> <<"(unknown)">>
           [] type = "Personal" -> <<"(deleted user)">>
           [] type = "Bot" -> <<"(deleted bot)">>
           [] type \in {"PrivateGroup", "PublicGroup"} -> <<"(deleted group)">>
           [] type \in {"PrivateChannel", "PublicChannel"} -> <<"(deleted channel)">>

\* ContentValue without its test of the count.
ContentValueUnchecked(messagesCount, dialog) ==
    dialog.relativePath \o <<"messages.txt">>

\* The value of the Content pair of writeChatEnd.
ContentValue(messagesCount, dialog) ==
    IF messagesCount > 0 THEN dialog.relativePath \o <<"messages.txt">>
    ELSE <<>>

\* The block writeChatEnd writes to the chats file.
ChatEndBlock(messagesCount, dialog) ==
    SerializeKeyValue(<<
        <<<<"Name">>, NameString(dialog.name, dialog.type)>>,
        <<<<"Type">>, TypeString(dialog.type)>>,
        <<IF dialog.onlyMyMessages THEN <<"Outgoing messages count">>
          ELSE <<"Messages count">>,
          NumberToString(messagesCount, 0, "0")>>,
        <<<<"Content">>, ContentValue(messagesCount, dialog)>> >>) \o kLineBreak

\* writeChatEnd releasing the per-dialog file only when its write succeeded.
writeChatEndKeepOnFailure(ok) ==
    /\ status = "running"
    /\ history' = [history EXCEPT !.proto = ProtoAfter("writeChatEnd", <<>>)]
    /\ IF ~(_chats # nullptr /\ _chat # nullptr)
       THEN Violated("writeChatEnd", <<>>)
       ELSE LET writes == <<writeBlock(_chats,
                               ChatEndBlock(_messagesCount, _dialog), ok)>>
            IN  /\ _chat' = IF ok THEN nullptr ELSE _chat
                /\ chatFile' = IF ok THEN <<>> ELSE chatFile
                /\ Returned("writeChatEnd", <<>>, <<>>, writes, ResultOf(writes))
                /\ UNCHANGED <<_settings, _summary, _userpicsCount, _userpics,
                               _dialogsCount, _dialogIndex, _dialog,
                               _messagesCount, _chats>>
    /\ UNCHANGED number

writeChatEnd(ok) ==
    /\ status = "running"
    /\ history' = [history EXCEPT !.proto = ProtoAfter("writeChatEnd", <<>>)]
    /\ IF ~(_chats # nullptr /\ _chat # nullptr)
       THEN Violated("writeChatEnd", <<>>)
       ELSE LET writes == <<writeBlock(_chats,
                               ChatEndBlock(_messagesCount, _dialog), ok)>>
            IN  /\ _chat' = nullptr
                /\ chatFile' = <<>>
                /\ Returned("writeChatEnd", <<>>, <<>>, writes, ResultOf(writes))
                /\ UNCHANGED <<_settings, _summary, _userpicsCount, _userpics,
                               _dialogsCount, _dialogIndex, _dialog,
                               _messagesCount, _chats>>
    /\ UNCHANGED number

writeChatsEnd ==
    /\ status = "running"
    /\ history' = [history EXCEPT !.proto = ProtoAfter("writeChatsEnd", <<>>),
                                  !.open = FALSE]
    /\ IF _chats = nullptr
       THEN Violated("writeChatsEnd", <<>>)
       ELSE /\ _chats' = nullptr
            /\ Returned("writeChatsEnd", <<>>, <<>>, <<>>, "Success")
            /\ UNCHANGED <<_settings, _summary, _userpicsCount, _userpics,
                           _dialogsCount, _dialogIndex, _dialog, _messagesCount,
                           _chat, chatFile>>
    /\ UNCHANGED number

writeDialogsStart(data, ok) ==
    writeChatsStart(data, <<"Chats">>, <<"chats.txt">>, ok)

writeDialogStart(data) == writeChatStart(data)

writeDialogSlice(data, ok) == writeChatSlice(data, ok)

writeDialogEnd(ok) == writeChatEnd(ok)

writeDialogsEnd == writeChatsEnd

writeLeftChannelsStart(data, ok) ==
    writeChatsStart(data, <<"Left chats">>, <<"left_chats.txt">>, ok)

writeLeftChannelStart(data) == writeChatStart(data)

writeLeftChannelSlice(data, ok) == writeChatSlice(data, ok)

writeLeftChannelEnd(ok) == writeChatEnd(ok)

writeLeftChannelsEnd == writeChatsEnd

finish ==
    /\ status = "running"
    /\ call' = [op |-> "finish", arg |-> <<>>, result |-> "Success",
                opened |-> <<>>, writes |-> <<>>]
    /\ status' = "finished"
    /\ UNCHANGED <<writer, number, history, helper>>

(* ------------------------------ the callers --------------------------- *)

\* The calls of the export controller, each with every argument and every
\* outcome of the file primitive.
CallStart == \E settings \in SettingsValues : start(settings)

CallPersonal == \E data \in PersonalInfos, ok \in BOOLEAN : writePersonal(data, ok)

CallUserpicsStart ==
    \E data \in UserpicsInfos, ok \in BOOLEAN : writeUserpicsStart(data, ok)

CallUserpicsSlice ==
    \E data \in UserpicsSlices, ok \in BOOLEAN : writeUserpicsSlice(data, ok)

CallUserpicsEnd == writeUserpicsEnd

CallContactsList ==
    \E data \in ContactsLists, io \in IoOutcomes(4) : writeContactsList(data, io)

CallSessionsList ==
    \E data \in SessionsLists, io \in IoOutcomes(2) : writeSessionsList(data, io)

CallDialogsStart(max) ==
    \E data \in DialogsInfos(max), ok \in BOOLEAN : writeDialogsStart(data, ok)

CallDialogStart == \E data \in DialogInfos : writeDialogStart(data)

CallDialogSlice ==
    \E data \in MessagesSlices, ok \in BOOLEAN : writeDialogSlice(data, ok)

CallDialogEnd == \E ok \in BOOLEAN : writeDialogEnd(ok)

CallDialogsEnd == writeDialogsEnd

CallLeftChannelsStart(max) ==
    \E data \in DialogsInfos(max), ok \in BOOLEAN :
        writeLeftChannelsStart(data, ok)

CallLeftChannelStart == \E data \in DialogInfos : writeLeftChannelStart(data)

CallLeftChannelSlice ==
    \E data \in MessagesSlices, ok \in BOOLEAN : writeLeftChannelSlice(data, ok)

CallLeftChannelEnd == \E ok \in BOOLEAN : writeLeftChannelEnd(ok)

CallLeftChannelsEnd == writeLeftChannelsEnd

CallFinish == finish

\* Every call of the writer, in any order.
Next ==
    \/ CallStart
    \/ CallPersonal
    \/ CallUserpicsStart
    \/ CallUserpicsSlice
    \/ CallUserpicsEnd
    \/ CallContactsList
    \/ CallSessionsList
    \/ CallDialogsStart(MaxDialogs)
    \/ CallDialogStart
    \/ CallDialogSlice
    \/ CallDialogEnd
    \/ CallDialogsEnd
    \/ CallLeftChannelsStart(MaxDialogs)
    \/ CallLeftChannelStart
    \/ CallLeftChannelSlice
    \/ CallLeftChannelEnd
    \/ CallLeftChannelsEnd
    \/ CallFinish

Spec == Init /\ [][Next]_vars

\* The calls that open and close the category files, in any order.
NextCategories ==
    \/ CallStart
    \/ CallPersonal
    \/ CallUserpicsStart
    \/ CallUserpicsSlice
    \/ CallUserpicsEnd
    \/ CallContactsList
    \/ CallSessionsList
    \/ CallDialogsStart(MaxDialogs)
    \/ CallDialogsEnd
    \/ CallLeftChannelsStart(MaxDialogs)
    \/ CallLeftChannelsEnd
    \/ CallFinish

SpecCategories == Init /\ [][NextCategories]_vars

\* The calls of the dialog lists and their per-dialog files, in any order.
NextDialogs ==
    \/ CallStart
    \/ CallDialogsStart(MaxDialogs)
    \/ CallDialogStart
    \/ CallDialogSlice
    \/ CallDialogEnd
    \/ CallDialogsEnd
    \/ CallLeftChannelsStart(MaxDialogs)
    \/ CallLeftChannelStart
    \/ CallLeftChannelSlice
    \/ CallLeftChannelEnd
    \/ CallLeftChannelsEnd
    \/ CallFinish

SpecDialogs == Init /\ [][NextDialogs]_vars

\* The calls that number the dialogs of a list of up to LongDialogs entries.
NextNumbering ==
    \/ CallStart
    \/ CallDialogsStart(LongDialogs)
    \/ CallDialogStart
    \/ CallDialogEnd
    \/ CallDialogsEnd

SpecNumbering == Init /\ [][NextNumbering]_vars

\* The calls that open and close the userpics, chats and chat handles, in any
\* order.
NextHandles ==
    \/ CallStart
    \/ CallUserpicsStart
    \/ CallUserpicsEnd
    \/ CallDialogsStart(MaxDialogs)
    \/ CallDialogStart
    \/ CallDialogEnd
    \/ CallDialogsEnd
    \/ CallFinish

SpecHandles == Init /\ [][NextHandles]_vars

(* ------------------- the helpers called on their own ------------------ *)

\* The characters of a value: one the code only copies, and the two it looks for.
ValueChars == {"a", "\r", "\n"}

\* Every value of up to n characters.
Values(n) == UNION { [1..k -> ValueChars] : k \in 0..n }

\* The pairs the longer lists are made of: two keys, and an empty, a
\* single-line and a multi-line value.
ListPairs ==
    { <<key, value>> :
        key \in {<<"key">>, <<"other">>},
        value \in {<<>>, <<"a">>, <<"a", "\n", "b">>} }

\* The arguments of SerializeKeyValue: one pair with every value, and every
\* list of up to MaxPairs pairs.
KeyValueLists ==
    { << <<<<"key">>, value>> >> : value \in Values(MaxValueLen) }
    \cup UNION { [1..k -> ListPairs] : k \in 0..MaxPairs }

\* The arguments of JoinList.
JoinLists ==
    { [separator |-> separator, list |-> list] :
        separator \in {<<>>, <<", ">>},
        list \in UNION { [1..k -> {<<>>, <<"a">>, <<"b", "c">>}] :
                             k \in 0..MaxListLen } }

\* The peers of a message: user 1 has a username, user 2 has none, user 3 is a
\* bot; every other id is unknown.
MessagePeers ==
    (UserPeerId(1) :> [isUser |-> TRUE, name |-> <<"Ann">>,
                       username |-> <<"ann">>, isBot |-> FALSE])
    @@ (UserPeerId(2) :> [isUser |-> TRUE, name |-> <<"Bob">>,
                          username |-> <<>>, isBot |-> FALSE])
    @@ (UserPeerId(3) :> [isUser |-> TRUE, name |-> <<"Quiz">>,
                          username |-> <<"quizbot">>, isBot |-> TRUE])

\* A Data::File and a Data::Image.
FileOf(relativePath, skipReason) ==
    [relativePath |-> relativePath, skipReason |-> skipReason]

ImageOf(file, width, height) == [file |-> file, width |-> width, height |-> height]

\* Every sequence of up to MaxMembers entries of a set.
Lists(entries) == UNION { [1..k -> entries] : k \in 0..MaxMembers }

\* One action of every variant, and none.
ActionKinds ==
    { NoAction,
      [type |-> "ActionChatCreate", title |-> <<"Team">>, userIds |-> <<1>>],
      [type |-> "ActionChatEditTitle", title |-> <<"Team">>],
      [type |-> "ActionChatEditPhoto",
       photo |-> [image |-> ImageOf(FileOf(<<"photos/2.jpg">>, "None"), 0, 0)]],
      [type |-> "ActionChatDeletePhoto"],
      [type |-> "ActionChatAddUser", userIds |-> <<1, 2>>],
      [type |-> "ActionChatDeleteUser", userId |-> 2],
      [type |-> "ActionChatJoinedByLink", inviterId |-> 1],
      [type |-> "ActionChannelCreate", title |-> <<"News">>],
      [type |-> "ActionChatMigrateTo"],
      [type |-> "ActionChannelMigrateFrom", title |-> <<"Team">>],
      [type |-> "ActionPinMessage"],
      [type |-> "ActionHistoryClear"],
      [type |-> "ActionGameScore", score |-> 12],
      [type |-> "ActionPaymentSent", amount |-> 5, currency |-> <<"EUR">>],
      [type |-> "ActionPhoneCall", duration |-> 9, discardReason |-> "Hangup"],
      [type |-> "ActionScreenshotTaken"],
      [type |-> "ActionCustomAction", message |-> <<"joined Telegram">>],
      [type |-> "ActionBotAllowed", domain |-> <<"example.org">>],
      [type |-> "ActionSecureValuesSent", types |-> <<"Passport">>] }

\* The actions that carry a list, with every list of up to MaxMembers entries:
\* user 9 is not among the peers.
ListActions ==
    { [type |-> "ActionChatCreate", title |-> <<"Team">>, userIds |-> ids] :
        ids \in Lists({1, 9}) }
    \cup { [type |-> "ActionChatAddUser", userIds |-> ids] : ids \in Lists({1, 9}) }
    \cup { [type |-> "ActionSecureValuesSent", types |-> types] :
              types \in Lists({"Passport", "Email"}) }

\* One media of every variant, and none.
MediaKinds ==
    { NoMedia,
      UnsupportedMedia,
      [type |-> "Photo", ttl |-> 30,
       image |-> ImageOf(FileOf(<<"photos/1.jpg">>, "None"), 640, 480)],
      [type |-> "Photo", ttl |-> 0,
       image |-> ImageOf(FileOf(<<>>, "FileSize"), 0, 0)],
      [type |-> "Photo", ttl |-> 0,
       image |-> ImageOf(FileOf(<<>>, "None"), 0, 0)],
      [type |-> "Document", ttl |-> 0, file |-> FileOf(<<"files/song.mp3">>, "None"),
       isSticker |-> FALSE, stickerEmoji |-> <<>>, isVideoMessage |-> FALSE,
       isVoiceMessage |-> FALSE, isAnimated |-> FALSE, isVideoFile |-> FALSE,
       isAudioFile |-> TRUE, songPerformer |-> <<"Band">>, songTitle |-> <<>>,
       mime |-> <<"audio/mp3">>, duration |-> 61, width |-> 0, height |-> 0],
      [type |-> "Document", ttl |-> 0, file |-> FileOf(<<>>, "Unavailable"),
       isSticker |-> TRUE, stickerEmoji |-> <<":)">>, isVideoMessage |-> FALSE,
       isVoiceMessage |-> FALSE, isAnimated |-> FALSE, isVideoFile |-> FALSE,
       isAudioFile |-> FALSE, songPerformer |-> <<>>, songTitle |-> <<>>,
       mime |-> <<"image/webp">>, duration |-> 0, width |-> 512, height |-> 512],
      [type |-> "ContactInfo", ttl |-> 0, firstName |-> <<"Dan">>,
       lastName |-> <<>>, phoneNumber |-> <<"4", "2">>],
      [type |-> "ContactInfo", ttl |-> 0, firstName |-> <<>>,
       lastName |-> <<>>, phoneNumber |-> <<>>],
      [type |-> "ContactInfo", ttl |-> 0, firstName |-> <<>>,
       lastName |-> <<"Lee">>, phoneNumber |-> <<>>],
      [type |-> "GeoPoint", ttl |-> 60, valid |-> TRUE, latitude |-> 48,
       longitude |-> 2],
      [type |-> "GeoPoint", ttl |-> 0, valid |-> FALSE, latitude |-> 0,
       longitude |-> 0],
      [type |-> "Venue", ttl |-> 0, title |-> <<"Cafe">>, address |-> <<>>,
       point |-> [valid |-> TRUE, latitude |-> 48, longitude |-> 2]],
      [type |-> "Game", ttl |-> 0, title |-> <<"Quiz">>, description |-> <<>>,
       botId |-> 3, shortName |-> <<"quiz">>],
      [type |-> "Invoice", ttl |-> 0, title |-> <<"Ticket">>,
       description |-> <<"one way">>, amount |-> 5, currency |-> <<"EUR">>,
       receiptMsgId |-> 0],
      [type |-> "Invoice", ttl |-> 0, title |-> <<"Ticket">>,
       description |-> <<>>, amount |-> 5, currency |-> <<"EUR">>,
       receiptMsgId |-> 8] }

\* The media the messages with every combination of sender fields carry.
SenderMedia ==
    { m \in MediaKinds :
        \/ m.type \in {"none", "UnsupportedMedia"}
        \/ (m.type = "Photo" /\ m.ttl # 0) }

\* The arguments of SerializeMessage: every action kind with every
\* combination of sender, signature, forward, reply and via-bot; every media
\* kind with and without text; every list of the actions that carry one.
Messages ==
    { [id |-> 4, date |-> 7, edited |-> 0, fromId |-> fromId,
       signature |-> signature, forwardedFromId |-> forwardedFromId,
       replyToMsgId |-> replyToMsgId, viaBotId |-> viaBotId,
       text |-> <<"hello">>, action |-> action, media |-> media] :
        action \in ActionKinds, media \in SenderMedia, fromId \in {0, 1},
        signature \in {<<>>, <<"Editor">>},
        forwardedFromId \in {0, UserPeerId(2)}, replyToMsgId \in {0, 5},
        viaBotId \in {0, 2, 3} }
    \cup { [id |-> 4, date |-> 7, edited |-> 8, fromId |-> 1,
             signature |-> <<>>, forwardedFromId |-> 0, replyToMsgId |-> 0,
             viaBotId |-> 0, text |-> text, action |-> NoAction,
             media |-> media] :
              media \in MediaKinds, text \in {<<>>, <<"one", "\n", "two">>} }
    \cup { [id |-> 4, date |-> 7, edited |-> 0, fromId |-> fromId,
             signature |-> <<>>, forwardedFromId |-> 0, replyToMsgId |-> 0,
             viaBotId |-> 0, text |-> <<>>, action |-> action,
             media |-> NoMedia] :
              action \in ListActions, fromId \in {0, 1} }

\* The helper calls, each with its argument.
HelperInputs ==
    { [fn |-> "SerializeKeyValue", arg |-> [values |-> values]] :
        values \in KeyValueLists }
    \cup { [fn |-> "JoinList", arg |-> data] : data \in JoinLists }
    \cup { [fn |-> "SerializeMessage",
             arg |-> [message |-> message, peers |-> MessagePeers,
                      internalLinksDomain |-> <<"https://t.me/">>]] :
              message \in Messages }

\* The writer is not used; one helper is about to be called with one argument.
InitHelper ==
    /\ InitWriter
    /\ helper \in { [fn |-> i.fn, arg |-> i.arg, done |-> FALSE, ok |-> TRUE,
                      result |-> <<>>] : i \in HelperInputs }

\* The helper returned result.
HelperReturned(result) ==
    /\ helper' = [helper EXCEPT !.done = TRUE, !.result = result]
    /\ UNCHANGED <<writer, status, call, number, history>>

\* An Expects of the helper failed: the program stops.
HelperViolated ==
    /\ helper' = [helper EXCEPT !.done = TRUE, !.ok = FALSE]
    /\ status' = "violated"
    /\ UNCHANGED <<writer, call, number, history>>

CallSerializeKeyValue ==
    /\ helper.fn = "SerializeKeyValue" /\ ~helper.done
    /\ HelperReturned(SerializeKeyValue(helper.arg.values))

CallJoinList ==
    /\ helper.fn = "JoinList" /\ ~helper.done
    /\ HelperReturned(JoinList(helper.arg.separator, helper.arg.list))

\* The Expects of every pushPath that SerializeMessage reaches for a message.
MessageExpects(message) ==
    \/ message.media.type = "UnsupportedMedia"
    \/ /\ message.action.type = "ActionChatEditPhoto"
              => PathExpects(message.action.photo.image.file)
       /\ message.media.type = "Photo" => PathExpects(message.media.image.file)
       /\ message.media.type = "Document" => PathExpects(message.media.file)

CallSerializeMessage ==
    /\ helper.fn = "SerializeMessage" /\ ~helper.done
    /\ IF MessageExpects(helper.arg.message)
       THEN HelperReturned(SerializeMessage(helper.arg.message, helper.arg.peers,
                                            helper.arg.internalLinksDomain))
       ELSE HelperViolated

\* One call of one serialization helper.
NextHelper ==
    \/ CallSerializeKeyValue
    \/ CallJoinList
    \/ CallSerializeMessage

SpecHelper == InitHelper /\ [][NextHelper]_vars

(* ------------------------------- claims ------------------------------- *)

Range(seq) == { seq[i] : i \in 1..Len(seq) }

Handles == <<_userpics, _chats, _chat>>

\* The calls of a dialog-list session.
ChatCalls == {"writeChatsStart", "writeChatStart", "writeChatSlice",
              "writeChatEnd", "writeChatsEnd"}

\* The value of the line "key: value" of a block, and <<>> if it has none.
FieldValue(block, key) ==
    IF key \notin Range(block) THEN <<>>
    ELSE LET p == CHOOSE i \in 1..Len(block) : block[i] = key
             e == IndexOf(block, "\n", p)
         IN  SubSeq(block, p + 2, e)

\* C1: in every reachable state at most one of the category handles _userpics
\* and _chats is open (and the single handle _chat is the only per-dialog file).
C1_OneCategoryFileOpen ==
    Cardinality({ i \in 1..2 : Handles[i] # nullptr }) <= 1

\* C2: when finish is called the userpics, chats and chat handles are all
\* null; a finish that finds one of them open is a contract violation.
C2_FinishSeesHandlesClosed ==
    call.op = "finish" =>
        \/ \A i \in 1..3 : Handles[i] = nullptr
        \/ call.result = "Violation"

\* C3: while the caller follows start, beginChats(list), (beginChat,
\* sliceChat*, endChat) once per listed dialog, endChats, for any list, no call
\* of the session fails a precondition, and endChats leaves _chats null.
C3_SessionRunsToCompletion ==
    (history.proto # "off" /\ call.op \in ChatCalls) =>
        /\ call.result # "Violation"
        /\ (call.op = "writeChatsEnd" => _chats = nullptr)

\* C4: between beginChats(list) and endChats, beginChat has succeeded at most
\* |list| times, for every list size and whatever ran before.
C4_BeginChatAtMostDeclared ==
    history.open => history.begun <= history.declared

\* C5: the sequence number a successful beginChat computes is exactly as wide
\* as the decimal form of (_dialogsCount - 1), and its value needs no more
\* characters than that.
C5_NumberWidth ==
    (call.op = "writeChatStart" /\ call.result = "Success") =>
        /\ Len(number) = Len(Decimal(_dialogsCount - 1))
        /\ Len(Decimal(_dialogIndex)) <= Len(Decimal(_dialogsCount - 1))

Rendered(data) ==
    JoinList(kLineBreak,
             [i \in 1..Len(data.list) |->
                 SerializeMessage(data.list[i], data.peers,
                                  _settings.internalLinksDomain)])

\* C7: the first sliceChat after beginChat writes its messages with no leading
\* line terminator, and every later sliceChat on the same file writes exactly
\* one line terminator before them.
C7_SliceSeparator ==
    (call.op = "writeChatSlice" /\ call.result # "Violation") =>
        LET block == call.writes[1].block
        IN  /\ Rendered(call.arg)[1] # "\n"
            /\ block = IF history.slices = 1 THEN Rendered(call.arg)
                       ELSE <<"\n">> \o Rendered(call.arg)

C7_Witness ==
    /\ call.op = "writeChatSlice" /\ call.result = "Success"
    /\ history.slices = 3

\* The places of the per-dialog file where a rendered message begins.
BlockStarts ==
    { p \in 1..Len(chatFile) : chatFile[p] \in {"ID", UnsupportedNotice[1]} }

\* C8: in the per-dialog file every message block after the first is preceded
\* by exactly one blank line, and the file does not begin with a blank line.
C8_BlocksSeparated ==
    /\ chatFile # <<>> => chatFile[1] # "\n"
    /\ \A p \in BlockStarts :
           p > 1 => /\ p > 3
                    /\ chatFile[p - 1] = "\n"
                    /\ chatFile[p - 2] = "\n"
                    /\ chatFile[p - 3] # "\n"

\* The full path of a file of the export.
PathOf(filename) == pathWithRelativePath(<<filename>>)

\* The pointer line of a category file was written to the summary file.
PointerWritten(filename) ==
    \E i \in 1..Len(call.writes) :
        /\ call.writes[i].file = _summary
        /\ call.writes[i].ok
        /\ filename \in Range(call.writes[i].block)

\* C9: a write the file primitive fails is the last write of its call and the
\* call returns the failure; a failed write to contacts.txt, frequent.txt or
\* sessions.txt leaves the pointer of that file unwritten, and a failed write
\* of writeSavedContacts leaves writeFrequentContacts not run.
C9_FailurePropagates ==
    /\ \A i \in 1..Len(call.writes) :
           ~call.writes[i].ok => (i = Len(call.writes) /\ call.result = "Failure")
    /\ call.result = "Failure" =>
           (call.writes # <<>> /\ ~call.writes[Len(call.writes)].ok)
    /\ \A filename \in {"contacts.txt", "frequent.txt", "sessions.txt"} :
           (\E i \in 1..Len(call.writes) :
                call.writes[i].file = PathOf(filename) /\ ~call.writes[i].ok)
           => ~PointerWritten(filename)
    /\ (/\ call.op = "writeContactsList"
        /\ call.arg.list # <<>>
        /\ \E i \in 1..2 : i <= Len(call.writes) /\ ~call.writes[i].ok)
       => PathOf("frequent.txt") \notin Range(call.opened)

C9_Witness ==
    /\ call.op = "writeContactsList" /\ call.result = "Failure"
    /\ call.arg.list # <<>> /\ call.arg.correspondents # <<>>
    /\ Len(call.writes) = 1

\* One collection kind of a call: its file is created only, and its pointer
\* written only, for a non-empty collection, and both are when the call succeeds.
FileIffNonEmpty(nonEmpty, filename) ==
    /\ PathOf(filename) \in Range(call.opened) => nonEmpty
    /\ PointerWritten(filename) => nonEmpty
    /\ (nonEmpty /\ call.result = "Success") =>
           (PathOf(filename) \in Range(call.opened) /\ PointerWritten(filename))
    /\ PointerWritten(filename) => PathOf(filename) \in Range(call.opened)

\* C10: for userpics, saved contacts, frequent contacts, sessions, dialogs and
\* left channels the category file is created and its pointer line written to
\* the summary exactly when the collection is non-empty (on a call that
\* succeeds: a failed write ends the call before the pointer); for an empty
\* collection no file is created and nothing is written.
C10_FileIffNonEmpty ==
    /\ (call.op = "writeUserpicsStart" /\ call.result # "Violation") =>
           /\ FileIffNonEmpty(call.arg.count > 0, "personal_photos.txt")
           /\ call.arg.count = 0 => (call.opened = <<>> /\ call.writes = <<>>)
    /\ (call.op = "writeContactsList" /\ call.result # "Violation") =>
           /\ FileIffNonEmpty(call.arg.list # <<>>, "contacts.txt")
           /\ FileIffNonEmpty(Len(call.arg.correspondents) + Len(call.arg.inlineBots)
                                  + Len(call.arg.phoneCalls) > 0, "frequent.txt")
           /\ Len(call.opened) <= 2 /\ Len(call.writes) <= 2 * Len(call.opened)
    /\ (call.op = "writeSessionsList" /\ call.result # "Violation") =>
           /\ FileIffNonEmpty(call.arg.list # <<>>, "sessions.txt")
           /\ call.arg.list = <<>> => (call.opened = <<>> /\ call.writes = <<>>)
    /\ (call.op = "writeChatsStart" /\ call.result # "Violation") =>
           /\ \/ /\ FileIffNonEmpty(call.arg.list # <<>>, "chats.txt")
                 /\ PathOf("left_chats.txt") \notin Range(call.opened)
              \/ /\ FileIffNonEmpty(call.arg.list # <<>>, "left_chats.txt")
                 /\ PathOf("chats.txt") \notin Range(call.opened)
           /\ call.arg.list = <<>> => (call.opened = <<>> /\ call.writes = <<>>)

C10_Witness ==
    /\ call.op = "writeContactsList" /\ call.result = "Success"
    /\ call.arg.list = <<>> /\ call.arg.correspondents # <<>>
    /\ call.opened = <<PathOf("frequent.txt")>>

\* start has succeeded: it is the only place that assigns _settings, and the
\* path it accepts is not empty.
Started == _settings.path # <<>>

\* The calls whose only precondition is Expects(_summary != nullptr).
SummaryCalls == {"writePersonal", "writeContactsList", "writeSessionsList"}

\* C11: once start has succeeded the summary handle is open after every call,
\* finish included; no call but start assigns it, and a call whose only
\* precondition is that the summary is open never fails its precondition.
C11_SummaryStaysOpen ==
    [][Started =>
          /\ _summary' # nullptr
          /\ (call'.op # "start" => _summary' = _summary)
          /\ (call'.op \in SummaryCalls => call'.result # "Violation")]_vars

C11_Witness ==
    /\ call.op = "finish" /\ Started /\ _summary # nullptr
    /\ _userpicsCount > 0 /\ _userpics = nullptr

\* The pieces of a value between its line breaks: one more than it has breaks.
RECURSIVE Segments(_)
Segments(value) ==
    IF "\n" \notin Range(value) THEN <<value>>
    ELSE LET p == CHOOSE i \in 1..Len(value) :
                      value[i] = "\n" /\ \A j \in 1..(i - 1) : value[j] # "\n"
         IN  <<SubSeq(value, 1, p - 1)>> \o Segments(SubSeq(value, p + 1, Len(value)))

\* The number of line breaks of a value.
Breaks(value) == Cardinality({ i \in 1..Len(value) : value[i] = "\n" })

\* A piece without the carriage return that ends it.
StripCr(segment) ==
    IF segment # <<>> /\ segment[Len(segment)] = "\r"
    THEN SubSeq(segment, 1, Len(segment) - 1)
    ELSE segment

\* The lines of a value: every piece that a line break ends, without a
\* carriage return directly before that line break, and the piece after the
\* last line break.
LinesOf(value) ==
    LET segments == Segments(value)
    IN  [i \in 1..Len(segments) |->
            IF i < Len(segments) THEN StripCr(segments[i]) ELSE segments[i]]

\* The lines without the empty piece after a final line break.
LinesWritten(value) ==
    LET lines == LinesOf(value)
    IN  IF lines[Len(lines)] = <<>> THEN SubSeq(lines, 1, Len(lines) - 1)
        ELSE lines

\* Each line after "> " and before a terminator.
RECURSIVE Quoted(_)
Quoted(lines) ==
    IF lines = <<>> THEN <<>>
    ELSE <<"> ">> \o lines[1] \o <<"\n">> \o Quoted(Tail(lines))

\* The number of "> " line prefixes of a block.
QuotedCount(block) == Cardinality({ i \in 1..Len(block) : block[i] = "> " })

\* SerializeKeyValue has returned for one pair whose value has line breaks.
MultilineCase ==
    /\ helper.fn = "SerializeKeyValue" /\ helper.done
    /\ Len(helper.arg.values) = 1
    /\ Breaks(helper.arg.values[1][2]) >= 1

\* C12 as stated: a value with k >= 1 line breaks, wherever they are, gives
\* "key:", a terminator and k+1 lines, each after "> ", each without the
\* carriage return that stood directly before its line feed.
C12_LinePerBreakPlusOne ==
    MultilineCase =>
        LET key == helper.arg.values[1][1]
            value == helper.arg.values[1][2]
        IN  /\ QuotedCount(helper.result) = Breaks(value) + 1
            /\ helper.result = key \o <<":", "\n">> \o Quoted(LinesOf(value))

\* C12 as amended: the same, but the empty piece after a final line break is
\* not a line: k lines when the value ends with a line break, k+1 otherwise.
C12_LinePerBreak ==
    MultilineCase =>
        LET key == helper.arg.values[1][1]
            value == helper.arg.values[1][2]
            k == Breaks(value)
        IN  /\ QuotedCount(helper.result)
                   = IF value[Len(value)] = "\n" THEN k ELSE k + 1
            /\ helper.result = key \o <<":", "\n">> \o Quoted(LinesWritten(value))

C12_Witness ==
    /\ MultilineCase
    /\ helper.arg.values[1][2] = <<"\r", "\n", "a", "\n">>
    /\ QuotedCount(helper.result) = 2

\* The line-group of one pair: nothing for an empty value, "key: value" and a
\* terminator for a value of one line, "key:" and the quoted lines otherwise.
GroupOf(pair) ==
    IF pair[2] = <<>> THEN <<>>
    ELSE IF Breaks(pair[2]) = 0 THEN pair[1] \o <<": ">> \o pair[2] \o <<"\n">>
    ELSE pair[1] \o <<":", "\n">> \o Quoted(LinesWritten(pair[2]))

RECURSIVE GroupsOf(_)
GroupsOf(values) ==
    IF values = <<>> THEN <<>> ELSE GroupOf(values[1]) \o GroupsOf(Tail(values))

\* C13: the result of SerializeKeyValue is the line-groups of the pairs with
\* a non-empty value, in the order of the list, a repeated key included; a
\* pair with an empty value adds nothing, and a non-empty value of one line
\* adds "key: value" and a terminator with no "> ".
C13_GroupPerNonEmptyPair ==
    (helper.fn = "SerializeKeyValue" /\ helper.done) =>
        LET values == helper.arg.values
            nonEmpty == { i \in 1..Len(values) : values[i][2] # <<>> }
        IN  /\ helper.result = GroupsOf(values)
            /\ Cardinality({ p \in 1..Len(helper.result) :
                                 helper.result[p] \in {":", ": "} })
                   = Cardinality(nonEmpty)
            /\ (\A i \in nonEmpty : Breaks(values[i][2]) = 0)
                   => "> " \notin Range(helper.result)

C13_Witness ==
    /\ helper.fn = "SerializeKeyValue" /\ helper.done
    /\ helper.arg.values = << <<<<"key">>, <<"a">>>>, <<<<"other">>, <<>>>>,
                               <<<<"key">>, <<"a", "\n", "b">>>> >>
    /\ Len(helper.result) = 13

\* SerializeMessage was called, and returned unless an Expects stopped it.
MessageCase == helper.fn = "SerializeMessage" /\ helper.done

\* C14: a message with UnsupportedMedia renders as the fixed notice and
\* nothing else, whatever its action, text and other fields, and no call of
\* SerializeMessage reaches the Unexpected of the media dispatch.
C14_UnsupportedOnlyNotice ==
    MessageCase =>
        /\ helper.arg.message.media.type = "UnsupportedMedia" =>
               /\ helper.ok
               /\ helper.result =
                      <<"Error! This message is not supported by this version of Telegram Desktop. Please update the application.">>
        /\ "Unexpected" \notin Range(helper.result)

C14_Witness ==
    /\ MessageCase
    /\ helper.arg.message.media.type = "UnsupportedMedia"
    /\ helper.arg.message.action.type = "ActionChatCreate"
    /\ helper.arg.message.fromId # 0 /\ helper.arg.message.text # <<>>
    /\ helper.arg.message.replyToMsgId # 0
    /\ Len(helper.result) = 1

\* The places of a block where a field begins: the start of every line that
\* is not a quoted line of a value.
FieldStarts(block) ==
    { p \in 1..Len(block) : (p = 1 \/ block[p - 1] = "\n") /\ block[p] # "> " }

\* The keys of the fields of a block, in order.
FieldKeys(block) ==
    LET starts == FieldStarts(block)
    IN  [i \in 1..Cardinality(starts) |->
            block[CHOOSE p \in starts :
                      Cardinality({ q \in starts : q < p }) = i - 1]]

\* The name the serializer shows for a user id.
SenderName(peers, userId) ==
    IF UserPeerId(userId) \in DOMAIN peers /\ peers[UserPeerId(userId)].name # <<>>
    THEN peers[UserPeerId(userId)].name
    ELSE <<"(unknown user)">>

\* The number of fields before those of the action: ID, Date and Edited.
HeaderFields(message) ==
    1 + (IF message.date # 0 THEN 1 ELSE 0) + (IF message.edited # 0 THEN 1 ELSE 0)

\* SerializeMessage has returned the fields of a message: no Expects failed
\* and the media was not UnsupportedMedia.
FieldsCase ==
    /\ MessageCase /\ helper.ok
    /\ helper.arg.message.media.type # "UnsupportedMedia"

\* C15: the fields of every action but payment-sent and bot-allowed, on a
\* message with a sender, begin with Actor and the sender's name; payment-sent
\* and bot-allowed have no Actor field.
C15_ActorFirst ==
    (FieldsCase /\ helper.arg.message.action.type # "none"
                /\ helper.arg.message.fromId # 0) =>
        LET message == helper.arg.message
            keys == FieldKeys(helper.result)
            first == HeaderFields(message) + 1
        IN  IF message.action.type \in {"ActionPaymentSent", "ActionBotAllowed"}
            THEN "Actor" \notin Range(keys)
            ELSE /\ Len(keys) >= first
                 /\ keys[first] = "Actor"
                 /\ FieldValue(helper.result, "Actor")
                        = SenderName(helper.arg.peers, message.fromId)

\* The username of the via-bot of a message, empty when it has none.
ViaUsername(peers, message) ==
    IF message.viaBotId # 0 /\ UserPeerId(message.viaBotId) \in DOMAIN peers
    THEN peers[UserPeerId(message.viaBotId)].username
    ELSE <<>>

\* How many fields of a block have the key.
FieldCount(block, key) ==
    Cardinality({ p \in FieldStarts(block) : block[p] = key })

\* The From, Author, Forwarded from, Reply to message and Via fields of the
\* block: none for a message with an action, and otherwise each one once
\* exactly when its value is not empty.
SenderFieldsAsValues ==
    LET message == helper.arg.message
        block == helper.result
        Once(key, present) == FieldCount(block, key) = IF present THEN 1 ELSE 0
    IN  IF message.action.type # "none"
        THEN \A key \in {"From", "Author", "Forwarded from", "Reply to message",
                          "Via"} : FieldCount(block, key) = 0
        ELSE /\ Once("From", message.fromId # 0)
             /\ Once("Author", message.signature # <<>>)
             /\ Once("Forwarded from", message.forwardedFromId # 0)
             /\ Once("Reply to message", message.replyToMsgId # 0)
             /\ Once("Via", ViaUsername(helper.arg.peers, message) # <<>>)

\* C16 as stated: for every message the block has none of the five fields
\* when the message carries an action, and otherwise each of them exactly
\* when its value is not empty.
C16_SenderFieldsOfEveryMessage ==
    (MessageCase /\ helper.ok) => SenderFieldsAsValues

\* C16 as amended: the same for every message whose media is not
\* UnsupportedMedia (the block of such a message is the notice alone).
C16_SenderFields ==
    FieldsCase => SenderFieldsAsValues

C16_Witness ==
    /\ FieldsCase
    /\ helper.arg.message.action.type = "none"
    /\ helper.arg.message.media.type = "Photo"
    /\ \A key \in {"From", "Author", "Forwarded from", "Reply to message", "Via"} :
           FieldCount(helper.result, key) = 1

\* The keys of the sender fields, and of the fields every block begins with.
SenderKeys == {"From", "Author", "Forwarded from", "Reply to message", "Via"}

HeaderKeys == {"ID", "Date", "Edited"}

\* C17: in the block of a message without an action the sender, author,
\* forwarded-from, reply and via fields come after every field of the media,
\* and the Text field, when there is one, is the last field.
C17_SenderAfterMedia ==
    (FieldsCase /\ helper.arg.message.action.type = "none") =>
        LET keys == FieldKeys(helper.result)
        IN  /\ \A i, j \in 1..Len(keys) :
                   (/\ keys[i] \in SenderKeys
                    /\ keys[j] \notin SenderKeys \cup HeaderKeys \cup {"Text"})
                   => j < i
            /\ helper.arg.message.text # <<>> => keys[Len(keys)] = "Text"

\* The fragments of a list, in order, with the separator between each two.
RECURSIVE JoinedBy(_, _)
JoinedBy(separator, list) ==
    IF list = <<>> THEN <<>>
    ELSE IF Len(list) = 1 THEN list[1]
    ELSE list[1] \o separator \o JoinedBy(separator, Tail(list))

\* One list of an action in the block: a field with the singular label for
\* one entry, a field with the plural label and the entries joined by ", "
\* for more, no field for none.
ListField(block, entries, labelOne, labelMany) ==
    CASE Len(entries) = 0 ->
           FieldCount(block, labelOne) = 0 /\ FieldCount(block, labelMany) = 0
      [] Len(entries) = 1 ->
           /\ FieldCount(block, labelOne) = 1 /\ FieldCount(block, labelMany) = 0
           /\ FieldValue(block, labelOne) = entries[1]
      [] OTHER ->
           /\ FieldCount(block, labelOne) = 0 /\ FieldCount(block, labelMany) = 1
           /\ FieldValue(block, labelMany) = JoinedBy(<<", ">>, entries)

RECURSIVE TotalLen(_)
TotalLen(list) == IF list = <<>> THEN 0 ELSE Len(list[1]) + TotalLen(Tail(list))

\* C19: JoinList returns nothing for an empty list, the fragment itself for a
\* list of one, and otherwise the fragments in order with the separator
\* between each two and neither before the first nor after the last.
C19_JoinList ==
    (helper.fn = "JoinList" /\ helper.done) =>
        LET separator == helper.arg.separator
            list == helper.arg.list
        IN  /\ list = <<>> => helper.result = <<>>
            /\ Len(list) = 1 => helper.result = list[1]
            /\ helper.result = JoinedBy(separator, list)
            /\ Len(list) >= 1 =>
                   Len(helper.result)
                       = TotalLen(list) + (Len(list) - 1) * Len(separator)

C19_Witness ==
    /\ helper.fn = "JoinList" /\ helper.done
    /\ helper.arg.list = <<<<"a">>, <<>>, <<"b", "c">>>>
    /\ helper.result = <<"a", ", ", ", ", "b", "c">>

\* C21: in every state reached by calls whose preconditions held, the
\* per-dialog handle _chat is open only if the category handle _chats is.
C21_ChatInsideChats ==
    status # "violated" => (_chat # nullptr => _chats # nullptr)

\* C22: a call of writeChatEnd that passes its preconditions leaves _chat
\* closed and _chats as it was, whether its write succeeded or failed;
\* writeUserpicsEnd leaves _userpics closed and writeChatsEnd leaves _chats
\* closed; and a handle that was open is closed by its own end call only.
C22_EndReleasesHandle ==
    [][call'.result # "Violation" =>
          /\ call'.op = "writeChatEnd" => (_chat' = nullptr /\ _chats' = _chats)
          /\ call'.op = "writeUserpicsEnd" => _userpics' = nullptr
          /\ call'.op = "writeChatsEnd" => _chats' = nullptr
          /\ (_chat # nullptr /\ _chat' = nullptr) => call'.op = "writeChatEnd"
          /\ (_userpics # nullptr /\ _userpics' = nullptr)
                 => call'.op = "writeUserpicsEnd"
          /\ (_chats # nullptr /\ _chats' = nullptr)
                 => call'.op = "writeChatsEnd"]_vars

C22_Witness ==
    /\ call.op = "writeChatEnd" /\ call.result = "Failure"
    /\ _chat = nullptr /\ _chats # nullptr /\ _userpics # nullptr

\* The pairs of the block a media embeds as one value, and the key it is
\* embedded under; no key for a media that embeds none.
InnerKey(media) ==
    CASE media.type = "ContactInfo" -> "Contact information"
      [] media.type = "GeoPoint" /\ media.valid -> "Location"
      [] media.type = "Venue" /\ media.point.valid -> "Location"
      [] media.type = "Invoice" -> "Invoice"
      [] OTHER -> "none"

InnerPairs(media) ==
    CASE media.type = "ContactInfo" ->
           << <<"First name", media.firstName>>, <<"Last name", media.lastName>>,
              <<"Phone number", FormatPhoneNumber(media.phoneNumber)>> >>
      [] media.type = "GeoPoint" ->
           << <<"Latitude", Decimal(media.latitude)>>,
              <<"Longitude", Decimal(media.longitude)>> >>
      [] media.type = "Venue" ->
           << <<"Latitude", Decimal(media.point.latitude)>>,
              <<"Longitude", Decimal(media.point.longitude)>> >>
      [] media.type = "Invoice" ->
           << <<"Title", media.title>>, <<"Description", media.description>>,
              <<"Amount", FormatMoneyAmount(media.amount, media.currency)>>,
              <<"Receipt message",
                IF media.receiptMsgId # 0
                THEN <<"ID-">> \o Decimal(media.receiptMsgId) ELSE <<>>>> >>

\* One "> key: value" line for every pair with a non-empty value, in order.
RECURSIVE QuotedPairs(_)
QuotedPairs(pairs) ==
    IF pairs = <<>> THEN <<>>
    ELSE (IF pairs[1][2] = <<>> THEN <<>>
          ELSE <<"> ", pairs[1][1], ": ">> \o pairs[1][2] \o <<"\n">>)
         \o QuotedPairs(Tail(pairs))

\* The field of a block with the key: from the key to the next field.
FieldGroup(block, key) ==
    LET starts == FieldStarts(block)
        p == CHOOSE q \in starts : block[q] = key
        later == { q \in starts : q > p }
        next == IF later = {} THEN Len(block) + 1
                ELSE CHOOSE q \in later : \A r \in later : q <= r
    IN  SubSeq(block, p, next - 1)

\* C23: a block of pairs with single-line values embedded as the value of an
\* outer key renders as "key:", a terminator and one "> " line for every inner
\* pair with a non-empty value, in order, with no empty quoted line after
\* them; when every inner value is empty the outer key is not in the block.
C23_EmbeddedBlock ==
    (FieldsCase /\ InnerKey(helper.arg.message.media) # "none") =>
        LET key == InnerKey(helper.arg.message.media)
            pairs == InnerPairs(helper.arg.message.media)
            lines == Cardinality({ i \in 1..Len(pairs) : pairs[i][2] # <<>> })
        IN  IF lines = 0 THEN FieldCount(helper.result, key) = 0
            ELSE /\ FieldCount(helper.result, key) = 1
                 /\ FieldGroup(helper.result, key)
                        = <<key, ":", "\n">> \o QuotedPairs(pairs)
                 /\ QuotedCount(FieldGroup(helper.result, key)) = lines

C23_Witness ==
    /\ FieldsCase
    /\ helper.arg.message.media.type = "Invoice"
    /\ helper.arg.message.media.description = <<>>
    /\ helper.arg.message.text # <<>>
    /\ QuotedCount(FieldGroup(helper.result, "Invoice")) = 3

====
